---------------------------- MODULE Spec2Model ----------------------------
(***************************************************************************)
(* Balance ledger and withdrawal-approval engine of the prototype backend  *)
(* (backend/server.js).                                                    *)
(*                                                                         *)
(* One sqlite connection is shared by every request handler.  A handler    *)
(* is a chain of callbacks: each callback runs after one SQL statement     *)
(* (or the upstream rate fetch) has completed, and issues the next         *)
(* statements.  A step of the model executes ONE issued statement          *)
(* against the tables and runs its callback.  Statements issued by the     *)
(* same callback (BEGIN and the debit UPDATE; the INSERT and COMMIT) are   *)
(* dispatched in parallel mode: db.serialize() covers only the statements  *)
(* issued while its own callback runs, i.e. the first SELECT, so the       *)
(* driver guarantees no order among them and none against the statements   *)
(* of other handlers.                                                      *)
(***************************************************************************)
EXTENDS Integers, Sequences, FiniteSets, Bags, TLC

(* ------------------------------ bounds --------------------------------- *)
\* requests that pass their checks in one behaviour
MaxOps == 2
\* write statements that fail with a store-level error in one behaviour
MaxFaults == 1

(* ------------------------- program constants --------------------------- *)
\* default settings row min_withdrawal_usd = '40'
MinDefault == 40
CACHE_TTL_MS == 60 * 1000

Users == {"a", "b"}
\* a username that names no row of users
Nobody == "nobody"
Names == Users \cup {Nobody}
Null == "null"
Admin == "admin"
\* amounts of /api/withdraw/request and /api/admin/transfer bodies
Amounts == {0, 1}
\* amounts of /api/deposit and /api/admin/adjust bodies: any JSON number
SignedAmounts == {0 - 1, 1}
\* prices the upstream source may report (usd per token)
Rates == {20, 40}
\* values of /api/admin/min_withdrawal bodies
MinValues == {20}
\* request bodies of /api/withdraw/request
RequestBodies ==
  {[amount |-> a, target_address |-> "addr"] : a \in Amounts}
    \cup {[amount |-> 1, target_address |-> ""]}
\* the handlers that can be in flight at the same time
Slots == {1, 2}
\* the time that passes between two readings of the clock
Delays == {0, CACHE_TTL_MS \div 2}

\* a nullable number (column amount_usd): NULL, or the value v
NoUsd == <<>>
Usd(v) == <<v>>

(* ------------- the store a process start can find on disk -------------- *)
\* balances of user a left by earlier admin adjustments (b has none)
Balances == {0, 1, 2}
\* a withdrawal user a requested for one token at a price of 40
Asked == [user_id |-> "a", amount |-> 1, status |-> "pending",
          admin_id |-> Null, amount_usd |-> Usd(40)]
Backlogs == {<<>>, <<Asked, Asked>>}
\* the withdrawal ids a behaviour can reach
WIds == 1 .. (2 + MaxOps)

VARIABLES
  users,         \* table users: username -> [balance, frozen]
  withdrawals,   \* table withdrawals: row id -> row
  transactions,  \* table transactions, as a bag of rows
  settings,      \* table settings: value of key min_withdrawal_usd
  txn,           \* <<>>, or <<tables as of BEGIN>> while a transaction is open
  h,             \* the handlers in flight: slot -> continuation
  resp,          \* the response the last step sent, if it sent one
  cachedRate,    \* 0 stands for null
  lastFetch,
  clock,         \* Date.now() as of its last reading
  stored,        \* history: the time at which cachedRate was stored
  ops,           \* handlers started so far
  faults,        \* store-level failures injected so far
  okApprove,     \* history: withdrawal id -> approve requests answered 200
  okReject,      \* history: withdrawal id -> reject requests answered 200
  deposited,     \* history: total of the deposits answered 200
  total0,        \* history: the sum of the balances at the start
  adjusted,      \* history: an admin adjustment has been applied
  lastSet        \* history: <<value>> of the last set answered 200, else <<>>

vars == <<users, withdrawals, transactions, settings, txn, h, resp,
          cachedRate, lastFetch, clock, stored, ops, faults, okApprove, okReject,
          deposited, total0, adjusted, lastSet>>

tables == <<users, withdrawals, transactions, settings>>
cache == <<cachedRate, lastFetch, clock, stored>>
history == <<okApprove, okReject, deposited, total0, adjusted, lastSet>>

(* ----------------------------- handlers -------------------------------- *)
Idle == [kind |-> "idle", pend |-> {}, res |-> 0,
         usr |-> Null, to |-> Null, amt |-> 0, wid |-> 0,
         bal |-> 0, frz |-> FALSE, rate |-> 0, now |-> 0, hit |-> FALSE]

Free(i) == h[i].kind = "idle"

\* the slot a new handler takes
NewSlot == CHOOSE i \in Slots : Free(i) /\ \A j \in Slots : j < i => ~Free(j)

\* a request arrives while a slot is free; only a request that passes its
\* checks counts against MaxOps (one that is refused changes nothing)
Start == (\E i \in Slots : Free(i)) /\ ops < MaxOps
Began == ops' = ops + 1
Refused == UNCHANGED ops

\* res.status(code).json(...)
Reply(k, code, msg) == [kind |-> k, code |-> code, error |-> msg]
NoReply == Reply("none", 0, "")
\* the step answers no request
Quiet == resp' = NoReply

\* a handler leaves its slot when every statement it issued has run
Done(r) == IF r.pend = {} THEN Idle ELSE r

\* outcomes of a write statement: TRUE it executes, FALSE the store reports
\* an error to the callback
Outcomes == IF faults < MaxFaults THEN {TRUE, FALSE} ELSE {TRUE}
Charge(ok) == faults' = IF ok THEN faults ELSE faults + 1

Row(u, type, amount, meta) ==
  [user_id |-> u, type |-> type, amount |-> amount, meta |-> meta]

Insert(row) == transactions (+) SetToBag({row})

Sum(f) ==
  LET RECURSIVE S(_)
      S(D) == IF D = {} THEN 0
              ELSE LET d == CHOOSE x \in D : TRUE IN f[d] + S(D \ {d})
  IN S(DOMAIN f)

\* String(value), the text stored in settings.value
String(v) == CASE v = 0 -> "0" [] v = 20 -> "20" [] v = 40 -> "40"

\* Number(min_usd || 0) of the text read from settings.value (Null: no row)
Number(s) == CASE s = Null -> 0 [] s = "0" -> 0 [] s = "20" -> 20
               [] s = "40" -> 40

(* ------------------------------- Init ---------------------------------- *)
\* a process start: the tables are what earlier runs left in the file (every
\* balance with its admin_adjust record), the rate cache is empty
Init ==
  /\ \E b0 \in Balances, fa \in {FALSE}, fb \in BOOLEAN :
       /\ users = [u \in Users |->
                     [balance |-> IF u = "a" THEN b0 ELSE 0,
                      frozen |-> IF u = "a" THEN fa ELSE fb]]
       /\ transactions = IF b0 = 0 THEN EmptyBag
                         ELSE SetToBag({Row("a", "admin_adjust", b0, Admin)})
       /\ total0 = b0
  /\ withdrawals \in Backlogs
  /\ settings = String(MinDefault)
  /\ txn = <<>>
  /\ h = [i \in Slots |-> Idle]
  /\ resp = NoReply
  /\ cachedRate = 0
  /\ lastFetch = 0
  /\ clock = CACHE_TTL_MS
  /\ stored = 0
  /\ ops = 0
  /\ faults = 0
  /\ okApprove = [w \in WIds |-> 0]
  /\ okReject = [w \in WIds |-> 0]
  /\ deposited = 0
  /\ adjusted = FALSE
  /\ lastSet = <<>>

(* ------------------- the connection's transaction ---------------------- *)
\* db.run('BEGIN TRANSACTION'): no callback, so "cannot start a transaction
\* within a transaction" is dropped
TxBegin(i) ==
  /\ "begin" \in h[i].pend
  /\ txn' = IF txn = <<>>
            THEN <<[users |-> users, withdrawals |-> withdrawals,
                    transactions |-> transactions, settings |-> settings]>>
            ELSE txn
  /\ h' = [h EXCEPT ![i] = Done([@ EXCEPT !.pend = @ \ {"begin"}])]
  /\ Quiet
  /\ UNCHANGED <<tables, cache, ops, faults, history>>

\* db.run('COMMIT'): no callback, "no transaction is active" is dropped
TxCommit(i) ==
  /\ "commit" \in h[i].pend
  /\ txn' = <<>>
  /\ h' = [h EXCEPT ![i] = Done([@ EXCEPT !.pend = @ \ {"commit"}])]
  /\ Quiet
  /\ UNCHANGED <<tables, cache, ops, faults, history>>

\* db.run('ROLLBACK'): undoes every write on the connection since BEGIN
TxRollback(i) ==
  /\ "rollback" \in h[i].pend
  /\ IF txn = <<>>
     THEN UNCHANGED tables
     ELSE /\ users' = txn[1].users
          /\ withdrawals' = txn[1].withdrawals
          /\ transactions' = txn[1].transactions
          /\ settings' = txn[1].settings
  /\ txn' = <<>>
  /\ h' = [h EXCEPT ![i] = Done([@ EXCEPT !.pend = @ \ {"rollback"}])]
  /\ Quiet
  /\ UNCHANGED <<cache, ops, faults, history>>

(* --------------------------- POST /api/deposit ------------------------- *)
\* SELECT frozen FROM users WHERE id = ?  and its callback
Deposit(u, amount) ==
  /\ Start
  /\ IF users[u].frozen
     THEN /\ resp' = Reply("deposit", 403, "account frozen")
          /\ UNCHANGED h /\ Refused
     ELSE /\ h' = [h EXCEPT ![NewSlot] =
                     [Idle EXCEPT !.kind = "deposit", !.usr = u,
                                  !.amt = amount, !.pend = {"upd"}]]
          /\ Quiet /\ Began
  /\ UNCHANGED <<tables, txn, cache, faults, history>>

\* UPDATE users SET balance = balance + ? WHERE id = ?  and its callback
DepositUpd(i) ==
  /\ h[i].kind = "deposit" /\ "upd" \in h[i].pend
  /\ \E ok \in Outcomes :
       /\ Charge(ok)
       /\ IF ok
          THEN /\ users' = [users EXCEPT ![h[i].usr].balance = @ + h[i].amt]
               /\ h' = [h EXCEPT ![i].pend = {"ins"}, ![i].res = 200]
               /\ resp' = Reply("deposit", 200, "")
               /\ deposited' = deposited + h[i].amt
          ELSE /\ h' = [h EXCEPT ![i] = Idle]
               /\ resp' = Reply("deposit", 500, "db error")
               /\ UNCHANGED <<users, deposited>>
  /\ UNCHANGED <<withdrawals, transactions, settings, txn, cache, ops,
                 okApprove, okReject, total0, adjusted, lastSet>>

\* INSERT INTO transactions ... 'deposit' (no callback: an error is dropped)
DepositIns(i) ==
  /\ h[i].kind = "deposit" /\ "ins" \in h[i].pend
  /\ \E ok \in Outcomes :
       /\ Charge(ok)
       /\ transactions' =
            IF ok THEN Insert(Row(h[i].usr, "deposit", h[i].amt, "simulated"))
            ELSE transactions
  /\ h' = [h EXCEPT ![i] = Idle]
  /\ Quiet
  /\ UNCHANGED <<users, withdrawals, settings, txn, cache, ops, history>>

(* ------------------- POST /api/admin/min_withdrawal -------------------- *)
\* setSetting: INSERT OR REPLACE INTO settings, answered in its callback
SetMin(value) ==
  /\ ops < MaxOps /\ ops' = ops + 1
  /\ \E ok \in Outcomes :
       /\ Charge(ok)
       /\ IF ok
          THEN /\ settings' = String(value)
               /\ resp' = Reply("min_withdrawal", 200, "")
               /\ lastSet' = <<value>>
          ELSE /\ resp' = Reply("min_withdrawal", 500, "db error")
               /\ UNCHANGED <<settings, lastSet>>
  /\ UNCHANGED <<users, withdrawals, transactions, txn, h, cache, okApprove,
                 okReject, deposited, total0, adjusted>>

(* ------------------ POST /api/admin/freeze, /unfreeze ------------------ *)
\* UPDATE users SET frozen = ? WHERE username = ?
SetFrozen(name, flag) ==
  [u \in Users |-> IF u = name THEN [users[u] EXCEPT !.frozen = flag]
                   ELSE users[u]]

Freeze(name) ==
  /\ ops < MaxOps /\ ops' = ops + 1
  /\ users' = SetFrozen(name, TRUE)
  /\ resp' = Reply("freeze", 200, "")
  /\ UNCHANGED <<withdrawals, transactions, settings, txn, h, cache, faults,
                 history>>

Unfreeze(name) ==
  /\ ops < MaxOps /\ ops' = ops + 1
  /\ users' = SetFrozen(name, FALSE)
  /\ resp' = Reply("unfreeze", 200, "")
  /\ UNCHANGED <<withdrawals, transactions, settings, txn, h, cache, faults,
                 history>>

(* ------------------------ POST /api/admin/adjust ----------------------- *)
\* UPDATE users SET balance = balance + ? WHERE username = ?
AdjustBalance(name, amount) ==
  [u \in Users |-> IF u = name THEN [users[u] EXCEPT !.balance = @ + amount]
                   ELSE users[u]]

\* the UPDATE and its callback, which answers before the record is inserted
Adjust(name, amount) ==
  /\ Start /\ Began
  /\ \E ok \in Outcomes :
       /\ Charge(ok)
       /\ IF ok
          THEN /\ users' = AdjustBalance(name, amount)
               /\ h' = [h EXCEPT ![NewSlot] =
                          [Idle EXCEPT !.kind = "adjust", !.usr = name,
                                       !.amt = amount, !.pend = {"ins"},
                                       !.res = 200]]
               /\ resp' = Reply("adjust", 200, "")
               /\ adjusted' = TRUE
          ELSE /\ resp' = Reply("adjust", 500, "db error")
               /\ UNCHANGED <<users, h, adjusted>>
  /\ UNCHANGED <<withdrawals, transactions, settings, txn, cache, okApprove,
                 okReject, deposited, total0, lastSet>>

\* SELECT id FROM users WHERE username = ?, then INSERT INTO transactions
\* with uid = row ? row.id : null (no callback: an error is dropped)
AdjustIns(i) ==
  /\ h[i].kind = "adjust" /\ "ins" \in h[i].pend
  /\ \E ok \in Outcomes :
       /\ Charge(ok)
       /\ transactions' =
            IF ok THEN Insert(Row(IF h[i].usr \in Users THEN h[i].usr ELSE Null,
                                  "admin_adjust", h[i].amt, Admin))
            ELSE transactions
  /\ h' = [h EXCEPT ![i] = Idle]
  /\ Quiet
  /\ UNCHANGED <<users, withdrawals, settings, txn, cache, ops, history>>

(* ----------------------- POST /api/admin/transfer ---------------------- *)
\* TransferCheck without the check of toRow.frozen
TransferCheckNoToFrozen(fromBalance, fromFrozen, to, amount) ==
  IF to \notin Users THEN Reply("transfer", 400, "to user not found")
  ELSE IF fromFrozen THEN Reply("transfer", 403, "from account is frozen")
  ELSE IF fromBalance < amount
       THEN Reply("transfer", 400, "insufficient funds in from account")
  ELSE Reply("transfer", 200, "")

\* the checks made on fromRow and toRow in the callback of the second SELECT
TransferCheck(fromBalance, fromFrozen, to, amount) ==
  IF to \notin Users THEN Reply("transfer", 400, "to user not found")
  ELSE IF fromFrozen THEN Reply("transfer", 403, "from account is frozen")
  ELSE IF users[to].frozen THEN Reply("transfer", 403, "to account is frozen")
  ELSE IF fromBalance < amount
       THEN Reply("transfer", 400, "insufficient funds in from account")
  ELSE Reply("transfer", 200, "")

\* validation, then SELECT ... FROM users WHERE username = from
Transfer(from, to, amount) ==
  /\ Start
  /\ IF amount <= 0
     THEN /\ resp' = Reply("transfer", 400, "amount must be positive")
          /\ UNCHANGED h /\ Refused
     ELSE IF from \notin Users
     THEN /\ resp' = Reply("transfer", 400, "from user not found")
          /\ UNCHANGED h /\ Refused
     ELSE /\ h' = [h EXCEPT ![NewSlot] =
                     [Idle EXCEPT !.kind = "transfer", !.usr = from, !.to = to,
                                  !.amt = amount, !.pend = {"selTo"},
                                  !.bal = users[from].balance,
                                  !.frz = users[from].frozen]]
          /\ Quiet /\ Began
  /\ UNCHANGED <<tables, txn, cache, faults, history>>

\* SELECT ... FROM users WHERE username = to, the checks, then BEGIN and
\* the debit UPDATE issued together
TransferSelTo(i) ==
  /\ h[i].kind = "transfer" /\ "selTo" \in h[i].pend
  /\ LET c == TransferCheck(h[i].bal, h[i].frz, h[i].to, h[i].amt) IN
     IF c.code = 200
     THEN /\ h' = [h EXCEPT ![i].pend = {"begin", "debit"}]
          /\ Quiet
     ELSE /\ h' = [h EXCEPT ![i] = Idle]
          /\ resp' = c
  /\ UNCHANGED <<tables, txn, cache, ops, faults, history>>

\* UPDATE users SET balance = balance - ? WHERE username = from
TransferDebit(i) ==
  /\ h[i].kind = "transfer" /\ "debit" \in h[i].pend
  /\ \E ok \in Outcomes :
       /\ Charge(ok)
       /\ IF ok
          THEN /\ users' = AdjustBalance(h[i].usr, 0 - h[i].amt)
               /\ h' = [h EXCEPT ![i].pend = (@ \ {"debit"}) \cup {"credit"}]
               /\ Quiet
          ELSE /\ h' = [h EXCEPT ![i].pend = (@ \ {"debit"}) \cup {"rollback"},
                                 ![i].res = 500]
               /\ resp' = Reply("transfer", 500, "db error during debit")
               /\ UNCHANGED users
  /\ UNCHANGED <<withdrawals, transactions, settings, txn, cache, ops, history>>

\* UPDATE users SET balance = balance + ? WHERE username = to; on success
\* the two record lookups and COMMIT are issued together and the answer sent
TransferCredit(i) ==
  /\ h[i].kind = "transfer" /\ "credit" \in h[i].pend
  /\ \E ok \in Outcomes :
       /\ Charge(ok)
       /\ IF ok
          THEN /\ users' = AdjustBalance(h[i].to, h[i].amt)
               /\ h' = [h EXCEPT ![i].pend = (@ \ {"credit"})
                                      \cup {"insOut", "insIn", "commit"},
                                 ![i].res = 200]
               /\ resp' = Reply("transfer", 200, "")
          ELSE /\ h' = [h EXCEPT ![i].pend = (@ \ {"credit"}) \cup {"rollback"},
                                 ![i].res = 500]
               /\ resp' = Reply("transfer", 500, "db error during credit")
               /\ UNCHANGED users
  /\ UNCHANGED <<withdrawals, transactions, settings, txn, cache, ops, history>>

\* SELECT id ... WHERE username = from, then INSERT ... 'transfer_out'
TransferInsOut(i) ==
  /\ h[i].kind = "transfer" /\ "insOut" \in h[i].pend
  /\ \E ok \in Outcomes :
       /\ Charge(ok)
       /\ transactions' =
            IF ok THEN Insert(Row(h[i].usr, "transfer_out", 0 - h[i].amt, h[i].to))
            ELSE transactions
  /\ h' = [h EXCEPT ![i] = Done([@ EXCEPT !.pend = @ \ {"insOut"}])]
  /\ Quiet
  /\ UNCHANGED <<users, withdrawals, settings, txn, cache, ops, history>>

\* SELECT id ... WHERE username = to, then INSERT ... 'transfer_in'
TransferInsIn(i) ==
  /\ h[i].kind = "transfer" /\ "insIn" \in h[i].pend
  /\ \E ok \in Outcomes :
       /\ Charge(ok)
       /\ transactions' =
            IF ok THEN Insert(Row(h[i].to, "transfer_in", h[i].amt, h[i].usr))
            ELSE transactions
  /\ h' = [h EXCEPT ![i] = Done([@ EXCEPT !.pend = @ \ {"insIn"}])]
  /\ Quiet
  /\ UNCHANGED <<users, withdrawals, settings, txn, cache, ops, history>>

(* ----------------------- POST /api/withdraw/request -------------------- *)
\* RequestCheck without the check of row.frozen
RequestCheckNoFrozen(u, body) ==
  IF body.amount <= 0
  THEN Reply("request", 400, "amount must be a positive number")
  ELSE IF body.target_address = ""
  THEN Reply("request", 400, "target_address required")
  ELSE IF users[u].balance < body.amount
  THEN Reply("request", 400, "insufficient funds")
  ELSE Reply("request", 200, "")

\* the checks before the rate is looked up
RequestCheck(u, body) ==
  IF body.amount <= 0
  THEN Reply("request", 400, "amount must be a positive number")
  ELSE IF body.target_address = ""
  THEN Reply("request", 400, "target_address required")
  ELSE IF users[u].frozen THEN Reply("request", 403, "account frozen")
  ELSE IF users[u].balance < body.amount
  THEN Reply("request", 400, "insufficient funds")
  ELSE Reply("request", 200, "")

\* fetchRateCached uses the cached rate whatever its age
FreshForever(now) == cachedRate # 0

\* fetchRateCached, up to its first await: TRUE when the cached rate is used
Fresh(now) == cachedRate # 0 /\ (now - lastFetch) < CACHE_TTL_MS

\* validation, SELECT balance, frozen, and the start of fetchRateCached
Request(u, body) ==
  /\ Start
  /\ LET c == RequestCheck(u, body) IN
     IF c.code # 200
     THEN /\ resp' = c
          /\ UNCHANGED <<h, clock>> /\ Refused
     ELSE \E d \in Delays :
            LET now == clock + d IN
            /\ clock' = now
            /\ h' = [h EXCEPT ![NewSlot] =
                       [Idle EXCEPT !.kind = "request", !.usr = u,
                                    !.amt = body.amount, !.now = now,
                                    !.hit = Fresh(now),
                                    !.rate = IF Fresh(now) THEN cachedRate ELSE 0,
                                    !.pend = IF Fresh(now) THEN {"getSetting"}
                                             ELSE {"fetch"}]]
            /\ Quiet /\ Began
  /\ UNCHANGED <<tables, txn, cachedRate, lastFetch, stored, faults, history>>

\* the catch branch of fetchRateCached returns null for every cached value
FallbackUnknown(cached) == 0

\* the catch branch of fetchRateCached: the cached value if there is one,
\* else null
Fallback(cached) == IF cached # 0 THEN cached ELSE 0

\* the upstream answer, some time after the fetch began: a price r, or r = 0
\* for an error, a non-OK status or a missing price field
RequestFetch(i, r) ==
  /\ h[i].kind = "request" /\ "fetch" \in h[i].pend
  /\ \E d \in Delays : clock' = clock + d
  /\ IF r # 0
     THEN /\ cachedRate' = r
          /\ lastFetch' = h[i].now
          /\ stored' = clock'
          /\ h' = [h EXCEPT ![i].rate = r, ![i].pend = {"getSetting"}]
     ELSE /\ h' = [h EXCEPT ![i].rate = Fallback(cachedRate),
                            ![i].pend = {"getSetting"}]
          /\ UNCHANGED <<cachedRate, lastFetch, stored>>
  /\ Quiet
  /\ UNCHANGED <<tables, txn, ops, faults, history>>

\* amount_usd = rate ? (amount * rate) : null
AmountUsd(amount, rate) == IF rate # 0 THEN Usd(amount * rate) ELSE NoUsd

\* the minimum check with <= for <
BelowMinOrEqual(amount_usd, min_usd) ==
  amount_usd # NoUsd /\ amount_usd[1] <= min_usd

\* the minimum check refusing a request whose value is unknown
BelowMinOrUnknown(amount_usd, min_usd) ==
  amount_usd = NoUsd \/ amount_usd[1] < min_usd

\* amount_usd !== null && amount_usd < min_usd
BelowMin(amount_usd, min_usd) ==
  amount_usd # NoUsd /\ amount_usd[1] < min_usd

\* the 400 answer of the minimum check: { error, amount_usd, min_usd }
ReplyBelowMin(amount_usd, min_usd) ==
  [kind |-> "request", code |-> 400,
   error |-> "amount below minimum withdrawal",
   amount_usd |-> amount_usd, min_usd |-> min_usd]

\* getSetting('min_withdrawal_usd') and the minimum check
RequestGetSetting(i) ==
  /\ h[i].kind = "request" /\ "getSetting" \in h[i].pend
  /\ IF BelowMin(AmountUsd(h[i].amt, h[i].rate), Number(settings))
     THEN /\ h' = [h EXCEPT ![i] = Idle]
          /\ resp' = ReplyBelowMin(AmountUsd(h[i].amt, h[i].rate),
                                   Number(settings))
     ELSE /\ h' = [h EXCEPT ![i].pend = {"insWd"}]
          /\ Quiet
  /\ UNCHANGED <<tables, txn, cache, ops, faults, history>>

\* RequestIns placing a hold: the INSERT also takes the amount off the balance
RequestInsHold(i) ==
  /\ h[i].kind = "request" /\ "insWd" \in h[i].pend
  /\ \E ok \in Outcomes :
       /\ Charge(ok)
       /\ IF ok
          THEN /\ withdrawals' = Append(withdrawals,
                    [user_id |-> h[i].usr, amount |-> h[i].amt,
                     status |-> "pending", admin_id |-> Null,
                     amount_usd |-> AmountUsd(h[i].amt, h[i].rate)])
               /\ users' = AdjustBalance(h[i].usr, 0 - h[i].amt)
               /\ resp' = Reply("request", 200, "")
          ELSE /\ resp' = Reply("request", 500, "db error creating withdrawal")
               /\ UNCHANGED <<withdrawals, users>>
  /\ h' = [h EXCEPT ![i] = Idle]
  /\ UNCHANGED <<transactions, settings, txn, cache, ops, history>>

\* INSERT INTO withdrawals ... 'pending'
RequestIns(i) ==
  /\ h[i].kind = "request" /\ "insWd" \in h[i].pend
  /\ \E ok \in Outcomes :
       /\ Charge(ok)
       /\ IF ok
          THEN /\ withdrawals' = Append(withdrawals,
                    [user_id |-> h[i].usr, amount |-> h[i].amt,
                     status |-> "pending", admin_id |-> Null,
                     amount_usd |-> AmountUsd(h[i].amt, h[i].rate)])
               /\ resp' = Reply("request", 200, "")
          ELSE /\ resp' = Reply("request", 500, "db error creating withdrawal")
               /\ UNCHANGED withdrawals
  /\ h' = [h EXCEPT ![i] = Idle]
  /\ UNCHANGED <<users, transactions, settings, txn, cache, ops, history>>

(* ------------------- POST /api/admin/withdraws/approve ----------------- *)
\* SELECT * FROM withdrawals WHERE id = ? AND status = 'pending'
Pending(id) == id \in DOMAIN withdrawals /\ withdrawals[id].status = "pending"

\* ApproveCheck without the funds check
ApproveCheckNoFunds(u, amount) ==
  IF users[u].frozen THEN Reply("approve", 403, "user account frozen")
  ELSE Reply("approve", 200, "")

\* the checks made on the owner's row
ApproveCheck(u, amount) ==
  IF users[u].frozen THEN Reply("approve", 403, "user account frozen")
  ELSE IF users[u].balance < amount
       THEN Reply("approve", 400, "insufficient funds")
  ELSE Reply("approve", 200, "")

Approve(id) ==
  /\ Start
  /\ IF ~Pending(id)
     THEN /\ resp' = Reply("approve", 400, "withdrawal not found or not pending")
          /\ UNCHANGED h /\ Refused
     ELSE /\ h' = [h EXCEPT ![NewSlot] =
                     [Idle EXCEPT !.kind = "approve", !.wid = id,
                                  !.usr = withdrawals[id].user_id,
                                  !.amt = withdrawals[id].amount,
                                  !.pend = {"selU"}]]
          /\ Quiet /\ Began
  /\ UNCHANGED <<tables, txn, cache, faults, history>>

\* SELECT ... FROM users WHERE id = w.user_id, the checks, then BEGIN and
\* the debit UPDATE issued together
ApproveSelU(i) ==
  /\ h[i].kind = "approve" /\ "selU" \in h[i].pend
  /\ LET c == ApproveCheck(h[i].usr, h[i].amt) IN
     IF c.code = 200
     THEN /\ h' = [h EXCEPT ![i].pend = {"begin", "debit"},
                            ![i].bal = users[h[i].usr].balance]
          /\ Quiet
     ELSE /\ h' = [h EXCEPT ![i] = Idle]
          /\ resp' = c
  /\ UNCHANGED <<tables, txn, cache, ops, faults, history>>

\* UPDATE users SET balance = balance - ? WHERE id = u.id
ApproveDebit(i) ==
  /\ h[i].kind = "approve" /\ "debit" \in h[i].pend
  /\ \E ok \in Outcomes :
       /\ Charge(ok)
       /\ IF ok
          THEN /\ users' = AdjustBalance(h[i].usr, 0 - h[i].amt)
               /\ h' = [h EXCEPT ![i].pend = (@ \ {"debit"}) \cup {"updW"}]
               /\ Quiet
          ELSE /\ h' = [h EXCEPT ![i].pend = (@ \ {"debit"}) \cup {"rollback"},
                                 ![i].res = 500]
               /\ resp' = Reply("approve", 500, "db error during debit")
               /\ UNCHANGED users
  /\ UNCHANGED <<withdrawals, transactions, settings, txn, cache, ops, history>>

\* SetStatus with no WHERE id = ?: every row is updated
SetStatusAll(id, status) ==
  [w \in DOMAIN withdrawals |->
     [withdrawals[w] EXCEPT !.status = status, !.admin_id = Admin]]

\* UPDATE withdrawals SET status = 'approved', admin_id = ?, ... WHERE id = ?
SetStatus(id, status) ==
  [w \in DOMAIN withdrawals |->
     IF w = id THEN [withdrawals[w] EXCEPT !.status = status, !.admin_id = Admin]
     ELSE withdrawals[w]]

\* the status UPDATE; on success the record INSERT and COMMIT are issued
\* together and the answer sent
ApproveUpdW(i) ==
  /\ h[i].kind = "approve" /\ "updW" \in h[i].pend
  /\ \E ok \in Outcomes :
       /\ Charge(ok)
       /\ IF ok
          THEN /\ withdrawals' = SetStatus(h[i].wid, "approved")
               /\ h' = [h EXCEPT ![i].pend = (@ \ {"updW"}) \cup {"ins", "commit"},
                                 ![i].res = 200]
               /\ resp' = Reply("approve", 200, "")
               /\ okApprove' = [okApprove EXCEPT ![h[i].wid] = @ + 1]
          ELSE /\ h' = [h EXCEPT ![i].pend = (@ \ {"updW"}) \cup {"rollback"},
                                 ![i].res = 500]
               /\ resp' = Reply("approve", 500, "db error updating withdrawal")
               /\ UNCHANGED <<withdrawals, okApprove>>
  /\ UNCHANGED <<users, transactions, settings, txn, cache, ops, okReject,
                 deposited, total0, adjusted, lastSet>>

\* INSERT INTO transactions ... 'withdrawal' (no callback)
ApproveIns(i) ==
  /\ h[i].kind = "approve" /\ "ins" \in h[i].pend
  /\ \E ok \in Outcomes :
       /\ Charge(ok)
       /\ transactions' =
            IF ok THEN Insert(Row(h[i].usr, "withdrawal", 0 - h[i].amt, Admin))
            ELSE transactions
  /\ h' = [h EXCEPT ![i] = Done([@ EXCEPT !.pend = @ \ {"ins"}])]
  /\ Quiet
  /\ UNCHANGED <<users, withdrawals, settings, txn, cache, ops, history>>

(* ------------------- POST /api/admin/withdraws/reject ------------------ *)
\* UPDATE withdrawals SET status = 'rejected', ... WHERE id = ? AND
\* status = 'pending', answered by this.changes
Reject(id) ==
  /\ ops < MaxOps /\ ops' = ops + 1
  /\ \E ok \in Outcomes :
       /\ Charge(ok)
       /\ IF ~ok
          THEN /\ resp' = Reply("reject", 500, "db error updating withdrawal")
               /\ UNCHANGED <<withdrawals, okReject>>
          ELSE IF ~Pending(id)
          THEN /\ resp' = Reply("reject", 400, "withdrawal not found or not pending")
               /\ UNCHANGED <<withdrawals, okReject>>
          ELSE /\ withdrawals' = SetStatus(id, "rejected")
               /\ resp' = Reply("reject", 200, "")
               /\ okReject' = [okReject EXCEPT ![id] = @ + 1]
  /\ UNCHANGED <<users, transactions, settings, txn, h, cache, okApprove,
                 deposited, total0, adjusted, lastSet>>

\* the ids a request may name: the rows there are and one there is not
Ids == 1 .. (Len(withdrawals) + 1)

Next ==
  \/ \E u \in Users, a \in SignedAmounts : Deposit(u, a)
  \/ \E i \in Slots : DepositUpd(i)
  \/ \E i \in Slots : DepositIns(i)
  \/ \E v \in MinValues : SetMin(v)
  \/ \E n \in Users : Freeze(n)
  \/ \E n \in Users : Unfreeze(n)
  \/ \E n \in Names, a \in SignedAmounts : Adjust(n, a)
  \/ \E i \in Slots : AdjustIns(i)
  \/ \E f \in Names, t \in Names, a \in Amounts : Transfer(f, t, a)
  \/ \E i \in Slots : TransferSelTo(i)
  \/ \E i \in Slots : TransferDebit(i)
  \/ \E i \in Slots : TransferCredit(i)
  \/ \E i \in Slots : TransferInsOut(i)
  \/ \E i \in Slots : TransferInsIn(i)
  \/ \E u \in Users, b \in RequestBodies : Request(u, b)
  \/ \E i \in Slots, r \in Rates \cup {0} : RequestFetch(i, r)
  \/ \E i \in Slots : RequestGetSetting(i)
  \/ \E i \in Slots : RequestIns(i)
  \/ \E id \in Ids : Approve(id)
  \/ \E i \in Slots : ApproveSelU(i)
  \/ \E i \in Slots : ApproveDebit(i)
  \/ \E i \in Slots : ApproveUpdW(i)
  \/ \E i \in Slots : ApproveIns(i)
  \/ \E id \in Ids : Reject(id)
  \/ \E i \in Slots : TxBegin(i)
  \/ \E i \in Slots : TxCommit(i)
  \/ \E i \in Slots : TxRollback(i)

Spec == Init /\ [][Next]_vars

(* ======================= properties of the ledger ====================== *)
\* no handler is in flight
Quiescent == \A i \in Slots : Free(i)

TotalBalance == Sum([u \in Users |-> users[u].balance])

\* the sum of the signed amounts of the transaction records of user u
RecordTotal(u) ==
  LET rows == {r \in BagToSet(transactions) : r.user_id = u}
  IN Sum([r \in rows |-> r.amount * CopiesIn(r, transactions)])

Terminal(w) == withdrawals[w].status \in {"approved", "rejected"}

ApprovedTotal ==
  Sum([w \in {x \in DOMAIN withdrawals : withdrawals[x].status = "approved"}
         |-> withdrawals[w].amount])

\* handler i is a debiting handler (an approval, or a transfer out to another
\* account) that has answered 200: its debit is applied
Debited(i) ==
  /\ \/ h[i].kind = "approve"
     \/ h[i].kind = "transfer" /\ h[i].to # h[i].usr
  /\ h[i].res = 200

\* approve handler i has applied its debit and has not failed since
ApproveDebited(i) ==
  h[i].kind = "approve" /\ ("updW" \in h[i].pend \/ h[i].res = 200)

\* C1: every account's balance is >= 0 in every reachable state.
C1_NonNegative == \A u \in Users : users[u].balance >= 0

\* C2: two debiting handlers on the same account (approvals, transfers out)
\* never both succeed when the two amounts together exceed the balance each
\* of them read for its funds check.
C2_NoDoubleSpend ==
  \A i \in Slots, j \in Slots :
    (i # j /\ Debited(i) /\ Debited(j) /\ h[i].usr = h[j].usr)
      => \/ h[i].amt + h[j].amt <= h[i].bal
         \/ h[i].amt + h[j].amt <= h[j].bal

\* C3: once a withdrawal is approved or rejected its row never changes again
\* and no approve or reject request on it is answered 200 any more.
C3_StatusMonotone ==
  [][\A w \in DOMAIN withdrawals :
       Terminal(w) => /\ w \in DOMAIN withdrawals'
                      /\ withdrawals'[w] = withdrawals[w]
                      /\ okApprove'[w] = okApprove[w]
                      /\ okReject'[w] = okReject[w]]_vars

\* C4: for every withdrawal id at most one approve request is answered 200,
\* and no two approve handlers of the same id both apply their debit.
C4_AtMostOnceDebit ==
  /\ \A w \in WIds : okApprove[w] <= 1
  /\ \A i \in Slots, j \in Slots :
       (i # j /\ ApproveDebited(i) /\ ApproveDebited(j)) => h[i].wid # h[j].wid

\* C5: when the only request of a behaviour is an approval and one of its
\* writes fails, then as the handler finishes the balance is the one it read
\* before the debit, the withdrawal is pending and the owner has no
\* withdrawal record.
C5_AtomicApproval ==
  [][\A i \in Slots :
       (h[i].kind = "approve" /\ h'[i].kind = "idle" /\ ops = 1 /\ faults' = 1)
         => /\ users'[h[i].usr].balance = h[i].bal
            /\ withdrawals'[h[i].wid].status = "pending"
            /\ \A r \in BagToSet(transactions') :
                 ~(r.type = "withdrawal" /\ r.user_id = h[i].usr)]_vars

\* C6: a step that changes the balance of an account that is frozen is a
\* step of the admin adjust handler.
C6_FrozenEnforced ==
  [][\A u \in Users :
       (users[u].frozen /\ users'[u].balance # users[u].balance)
         => resp'.kind = "adjust"]_vars

\* C7: with no handler in flight, no admin adjustment and no failed write,
\* the sum of the balances is the initial sum plus the deposits answered 200
\* minus the amounts of the approved withdrawals.
C7_Conservation ==
  (Quiescent /\ ~adjusted /\ faults = 0)
    => TotalBalance = total0 + deposited - ApprovedTotal

\* the rows the transfer handler in slot i read fail one of its checks
TransferRefusable(i) ==
  \/ h[i].to \notin Users
  \/ h[i].frz
  \/ users[h[i].to].frozen
  \/ h[i].bal < h[i].amt

\* C8: a transfer whose source is missing, or whose rows (the source as its
\* first SELECT read it, the destination as its second SELECT reads it) show
\* a missing destination, a frozen side or too small a source balance, is
\* answered with an error, changes no table and issues no further statement.
C8_TransferRefused ==
  [][/\ \A f \in Names, t \in Names, a \in Amounts :
          Transfer(f, t, a) =>
            /\ UNCHANGED tables
            /\ f \notin Users =>
                 (resp'.code = 400 /\ UNCHANGED h)
     /\ \A i \in Slots :
          (/\ h[i].kind = "transfer" /\ "selTo" \in h[i].pend
           /\ h'[i] # h[i] /\ TransferRefusable(i))
            => /\ resp'.kind = "transfer" /\ resp'.code \in {400, 403}
               /\ h'[i] = Idle
               /\ UNCHANGED tables]_vars

\* a transfer to a frozen account has just been refused
C8_Witness ==
  /\ resp = Reply("transfer", 403, "to account is frozen")
  /\ \E u \in Users : users[u].frozen

\* transfer handler i has applied its debit and not yet its credit
MidTransfer(i) == h[i].kind = "transfer" /\ "credit" \in h[i].pend

\* C9: between a transfer's debit and its credit only that handler's own
\* statements execute, and when the debit is applied the source balance
\* still covers the amount.
C9_TransferAtomic ==
  [][\A i \in Slots :
       /\ MidTransfer(i) => h'[i] # h[i]
       /\ (h[i].kind = "transfer" /\ MidTransfer(i)' /\ ~MidTransfer(i))
            => users[h[i].usr].balance >= h[i].amt]_vars

\* C10: in every reachable state every account's balance equals the sum of
\* the signed amounts of its transaction records (each balance change and
\* its record appear in the same step).
C10_RecordWithMutation ==
  \A u \in Users : users[u].balance = RecordTotal(u)

(* ------------------------ approval bookkeeping ------------------------- *)
\* the withdrawal rows of user u with status approved
Approved(u) ==
  {w \in DOMAIN withdrawals :
     withdrawals[w].user_id = u /\ withdrawals[w].status = "approved"}

\* the records of kind withdrawal owned by u, with their multiplicity
WithdrawalRecords(u) ==
  LET rows == {r \in BagToSet(transactions) :
                 r.user_id = u /\ r.type = "withdrawal"}
  IN Sum([r \in rows |-> CopiesIn(r, transactions)])

\* C11: in every quiescent state each account has exactly one withdrawal
\* record per approved withdrawal (and none for any other withdrawal), each
\* carrying minus the withdrawal's amount and the approving administrator.
C11_ApprovalRecorded ==
  Quiescent =>
    \A u \in Users :
      /\ WithdrawalRecords(u) = Cardinality(Approved(u))
      /\ \A w \in Approved(u) :
           /\ withdrawals[w].admin_id = Admin
           /\ Row(u, "withdrawal", 0 - withdrawals[w].amount, Admin)
                \in BagToSet(transactions)

(* ----------------------------- rate cache ------------------------------ *)
\* slot i takes a withdrawal request in this step: fetchRateCached is called
Calls(i) == Free(i) /\ h'[i].kind = "request"

\* C12: a call of fetchRateCached made when a value is cached and less than
\* the TTL has passed since lastFetch returns the cached value and starts no
\* fetch; a call made when nothing is cached or at least the TTL has passed
\* starts a fetch.
C12_CacheFreshness ==
  [][\A i \in Slots :
       Calls(i) =>
         IF cachedRate # 0 /\ h'[i].now - lastFetch < CACHE_TTL_MS
         THEN /\ h'[i].rate = cachedRate
              /\ "fetch" \notin h'[i].pend
              /\ UNCHANGED <<cachedRate, lastFetch>>
         ELSE "fetch" \in h'[i].pend]_vars

\* a request has found the cache fresh some time after the value's timestamp
\* and continues with the cached value
C12_Witness ==
  \E i \in Slots :
    /\ h[i].kind = "request" /\ h[i].hit
    /\ h[i].now > lastFetch /\ h[i].rate = cachedRate

\* C13: a failed fetch leaves cachedRate and lastFetch as they are, returns
\* the cached value if there is one (whatever its age) and null otherwise,
\* and does not make a stale cache fresh: a call made right after it would
\* fetch again.
C13_FetchFailure ==
  [][\A i \in Slots :
       RequestFetch(i, 0) =>
         /\ UNCHANGED <<cachedRate, lastFetch>>
         /\ h'[i].rate = cachedRate
         /\ (cachedRate = 0 \/ h[i].now - lastFetch >= CACHE_TTL_MS)
              => (cachedRate' = 0 \/ clock' - lastFetch' >= CACHE_TTL_MS)]_vars

\* a request whose fetch failed continues with a cached value that is at
\* least one TTL old
C13_Witness ==
  \E i \in Slots :
    /\ h[i].kind = "request" /\ ~h[i].hit /\ h[i].pend = {"getSetting"}
    /\ cachedRate # 0 /\ h[i].rate = cachedRate
    /\ h[i].now - lastFetch >= CACHE_TTL_MS

\* C14: after a successful fetch the cache is fresh for one TTL counted from
\* the time the value was stored: a call made less than the TTL after that
\* time returns the cached value and starts no fetch.
C14_FreshSinceStored ==
  [][\A i \in Slots :
       (Calls(i) /\ cachedRate # 0 /\ h'[i].now - stored < CACHE_TTL_MS)
         => /\ "fetch" \notin h'[i].pend
            /\ h'[i].rate = cachedRate]_vars

(* ---------------------- withdrawal request checks ---------------------- *)
\* the withdrawals row a successful request of handler i appends
Requested(i, amount_usd) ==
  [user_id |-> h[i].usr, amount |-> h[i].amt, status |-> "pending",
   admin_id |-> Null, amount_usd |-> amount_usd]

\* C15: when a rate is available, a request whose amount * rate is below the
\* floor it reads from the settings is answered 400 with that value and the
\* floor and creates no withdrawal; one whose value is equal to or above the
\* floor goes on to its INSERT, which (unless the store fails it) appends
\* exactly one pending withdrawal whose amount_usd is amount * rate.
C15_MinimumEnforced ==
  [][\A i \in Slots :
       /\ (RequestGetSetting(i) /\ h[i].rate # 0) =>
            IF h[i].amt * h[i].rate < Number(settings)
            THEN /\ resp' = ReplyBelowMin(Usd(h[i].amt * h[i].rate),
                                          Number(settings))
                 /\ h'[i] = Idle
                 /\ UNCHANGED tables
            ELSE /\ h'[i].pend = {"insWd"}
                 /\ UNCHANGED tables
       /\ (RequestIns(i) /\ h[i].rate # 0 /\ faults' = faults) =>
            /\ withdrawals' =
                 Append(withdrawals, Requested(i, Usd(h[i].amt * h[i].rate)))
            /\ resp' = Reply("request", 200, "")]_vars

\* a request worth 20 has just been refused against the floor of 40
C15_Witness == resp = ReplyBelowMin(Usd(20), MinDefault)

\* the steps of handler i after fetchRateCached returned null: the minimum
\* check is skipped whatever the floor, and the INSERT (unless the store
\* fails it) appends one pending withdrawal with the snapshot amount_usd
FailOpen(i, amount_usd) ==
  /\ (RequestGetSetting(i) /\ h[i].rate = 0) =>
       /\ h'[i].pend = {"insWd"}
       /\ UNCHANGED tables
  /\ (RequestIns(i) /\ h[i].rate = 0 /\ faults' = faults) =>
       /\ withdrawals' = Append(withdrawals, Requested(i, amount_usd))
       /\ resp' = Reply("request", 200, "")

C17_RequestRefused ==
  [][\A u \in Users, body \in RequestBodies :
       (/\ Request(u, body)
        /\ \/ body.amount <= 0
           \/ body.target_address = ""
           \/ users[u].frozen
           \/ users[u].balance < body.amount)
         => /\ resp'.kind = "request"
            /\ resp'.code = IF /\ body.amount > 0
                               /\ body.target_address # ""
                               /\ users[u].frozen
                            THEN 403 ELSE 400
            /\ UNCHANGED h
            /\ UNCHANGED tables]_vars

\* a request of a frozen account that holds funds has just been refused
C17_Witness ==
  /\ resp = Reply("request", 403, "account frozen")
  /\ \E u \in Users : users[u].frozen /\ users[u].balance >= 1

(* ------------------------------ no hold -------------------------------- *)
\* the step is a step of a withdrawal request
RequestStep ==
  \/ \E u \in Users, body \in RequestBodies : Request(u, body)
  \/ \E i \in Slots :
       \/ \E r \in Rates \cup {0} : RequestFetch(i, r)
       \/ RequestGetSetting(i)
       \/ RequestIns(i)

\* the amounts of the pending withdrawals of user u
PendingTotal(u) ==
  Sum([w \in {x \in DOMAIN withdrawals :
                /\ withdrawals[x].user_id = u
                /\ withdrawals[x].status = "pending"}
         |-> withdrawals[w].amount])

\* C18: no step of a withdrawal request, refused or not, changes a balance
\* or the transaction log; the debit of a withdrawal is applied by its
\* approval only, after the approval read a balance covering the amount.
C18_NoHold ==
  [][/\ RequestStep => UNCHANGED <<users, transactions>>
     /\ \A i \in Slots :
          (ApproveDebit(i) /\ users' # users)
            => /\ h[i].bal >= h[i].amt
               /\ users' = AdjustBalance(withdrawals[h[i].wid].user_id,
                                         0 - withdrawals[h[i].wid].amount)]_vars

\* a request has just been accepted, the pending withdrawals of its account
\* exceed the balance, and the balance still is the total of its records
C18_Witness ==
  /\ resp = Reply("request", 200, "")
  /\ \E u \in Users :
       /\ PendingTotal(u) > users[u].balance
       /\ users[u].balance >= 1
       /\ users[u].balance = RecordTotal(u)

(* -------------------------- refused approval --------------------------- *)
\* C19: an approve whose SELECT of the owner finds the account frozen or its
\* balance below the withdrawal's amount is answered 403 / 400, ends there,
\* and changes no table: the withdrawal stays as it was, no balance changes
\* and no record is appended.
C19_ApproveRefused ==
  [][\A i \in Slots :
       (/\ ApproveSelU(i)
        /\ \/ users[h[i].usr].frozen
           \/ users[h[i].usr].balance < h[i].amt)
         => /\ resp'.kind = "approve"
            /\ resp'.code = IF users[h[i].usr].frozen THEN 403 ELSE 400
            /\ h'[i] = Idle
            /\ UNCHANGED tables]_vars

\* an approve has just been refused for lack of funds and its withdrawal is
\* still pending
C19_Witness ==
  /\ resp = Reply("approve", 400, "insufficient funds")
  /\ \E w \in DOMAIN withdrawals :
       /\ Pending(w)
       /\ users[withdrawals[w].user_id].balance < withdrawals[w].amount

(* ------------------------------- reject -------------------------------- *)
\* C20: a reject changes no balance, no transaction record, no setting and
\* no withdrawal other than the one it names; it moves that one from pending
\* to rejected with the administrator recorded and answers 200, and on a
\* missing or non-pending withdrawal (or a store error) it answers with an
\* error and changes nothing.
C20_RejectFrame ==
  [][\A id \in Ids :
       Reject(id) =>
         /\ UNCHANGED <<users, transactions, settings>>
         /\ DOMAIN withdrawals' = DOMAIN withdrawals
         /\ \A w \in DOMAIN withdrawals :
              w # id => withdrawals'[w] = withdrawals[w]
         /\ IF Pending(id) /\ faults' = faults
            THEN /\ withdrawals'[id] =
                      [withdrawals[id] EXCEPT !.status = "rejected",
                                              !.admin_id = Admin]
                 /\ resp' = Reply("reject", 200, "")
            ELSE /\ UNCHANGED withdrawals
                 /\ resp'.kind = "reject"
                 /\ resp'.code \in {400, 500}]_vars

\* a reject has just succeeded while another withdrawal is pending
C20_Witness ==
  /\ resp = Reply("reject", 200, "")
  /\ \E w \in DOMAIN withdrawals : withdrawals[w].status = "rejected"
  /\ \E w \in DOMAIN withdrawals : Pending(w)

(* ------------------------------ deposits ------------------------------- *)
\* C21: a deposit whose amount is not positive is answered with an error,
\* starts no statement and changes neither a balance nor the transaction
\* log; the UPDATE of a deposit adds exactly the (positive) amount to the
\* depositor's balance.
C21_DepositPositive ==
  [][/\ \A u \in Users, a \in SignedAmounts :
          (Deposit(u, a) /\ a <= 0)
            => /\ resp'.kind = "deposit" /\ resp'.code = 400
               /\ UNCHANGED h
               /\ UNCHANGED <<users, transactions>>
     /\ \A i \in Slots :
          (DepositUpd(i) /\ faults' = faults)
            => /\ h[i].amt > 0
               /\ users' = [users EXCEPT ![h[i].usr].balance = @ + h[i].amt]]_vars

(* --------------------------- admin adjustment -------------------------- *)
\* C22: an admin adjustment of an existing account that is answered 200
\* adds the signed amount to that account's balance, whether or not the
\* account is frozen and whatever the balance becomes, changes no other
\* account and no withdrawal, and by the time the handler has finished has
\* appended one admin_adjust record for that account with the same signed
\* amount and the acting administrator.
C22_AdjustRecorded ==
  [][/\ \A name \in Users, a \in SignedAmounts :
          (Adjust(name, a) /\ resp'.code = 200)
            => /\ users' = [users EXCEPT ![name].balance = @ + a]
               /\ UNCHANGED withdrawals
     /\ \A i \in Slots :
          (h[i].kind = "adjust" /\ h[i].usr \in Users /\ Free(i)')
            => /\ transactions' = transactions (+)
                   SetToBag({Row(h[i].usr, "admin_adjust", h[i].amt, Admin)})
               /\ UNCHANGED <<users, withdrawals>>]_vars

(* --------------------------- minimum setting --------------------------- *)
\* the floor a withdrawal request reads: Number(min_usd || 0) of getSetting
FloorRead == Number(settings)

\* C23: at every moment, so at whichever moment a withdrawal request reads
\* the setting, the floor it reads is the value written by the most recent
\* set of the minimum that was answered 200, and the default 40 when no set
\* was made.
C23_FloorIsLastSet ==
  FloorRead = IF lastSet = <<>> THEN MinDefault ELSE lastSet[1]

(* ------------------------------ termination ---------------------------- *)
\* the steps of the handler in slot i that the process itself takes: the
\* statements it has issued to the store and their callbacks.  The answer
\* of the upstream price source (RequestFetch) is not among them.
HandlerStep(i) ==
  \/ DepositUpd(i) \/ DepositIns(i) \/ AdjustIns(i)
  \/ TransferSelTo(i) \/ TransferDebit(i) \/ TransferCredit(i)
  \/ TransferInsOut(i) \/ TransferInsIn(i)
  \/ RequestGetSetting(i) \/ RequestIns(i)
  \/ ApproveSelU(i) \/ ApproveDebit(i) \/ ApproveUpdW(i) \/ ApproveIns(i)
  \/ TxBegin(i) \/ TxCommit(i) \/ TxRollback(i)

\* fair scheduling of the handlers: the store executes every statement that
\* was issued and the event loop runs its callback; the upstream may stay
\* silent, since fetch(COINGECKO_URL) is called without a timeout
Fairness == \A i \in Slots : WF_vars(HandlerStep(i))
FairSpec == Init /\ [][Next]_vars /\ Fairness

\* C24: under fair scheduling of the handlers every withdrawal request in
\* flight eventually completes (its handler answers and leaves its slot),
\* even when the upstream price source never answers the fetch.
C24_RequestCompletes ==
  \A i \in Slots : (h[i].kind = "request") ~> Free(i)

(* --------------------------- transfer records -------------------------- *)
\* the two records a transfer from h[i].usr to h[i].to appends
TransferOut(i) == Row(h[i].usr, "transfer_out", 0 - h[i].amt, h[i].to)
TransferIn(i) == Row(h[i].to, "transfer_in", h[i].amt, h[i].usr)

\* C25: the two records of a successful transfer (transfer_out of -amount
\* owned by the source and naming the destination, transfer_in of +amount
\* owned by the destination and naming the source) are committed in the
\* transaction of the balance updates: when the COMMIT of a transfer between
\* two accounts ends a transaction in which balances were updated, both are
\* in the log and neither insert is still to come.
C25_RecordsInTransaction ==
  [][\A i \in Slots :
       (TxCommit(i) /\ h[i].kind = "transfer" /\ h[i].usr # h[i].to
          /\ txn # <<>> /\ txn[1].users # users)
         => /\ h[i].pend \cap {"insOut", "insIn"} = {}
            /\ CopiesIn(TransferOut(i), transactions) >= 1
            /\ CopiesIn(TransferIn(i), transactions) >= 1]_vars

(* -------------------------- approve and reject ------------------------- *)
\* C26: an approve and a reject of the same withdrawal never both report
\* success, and the owner is never debited for a withdrawal whose reject
\* reported success.
C26_ApproveXorReject ==
  /\ \A w \in WIds : ~(okApprove[w] >= 1 /\ okReject[w] >= 1)
  /\ \A i \in Slots : ApproveDebited(i) => okReject[h[i].wid] = 0

(* --------------------------- ledger consistency ------------------------ *)
\* C27: in every quiescent state reached without a store failure each
\* account's balance is the sum of the amounts of the records it owns, and
\* every record is owned by an existing account; in particular an admin
\* adjustment naming an account that does not exist appends no record.
C27_LedgerConsistent ==
  (Quiescent /\ faults = 0)
    => /\ \A u \in Users : users[u].balance = RecordTotal(u)
       /\ \A r \in BagToSet(transactions) : r.user_id \in Users

(* --------------------------- concurrent fetches ------------------------ *)
\* C28: whatever the order in which concurrent upstream fetches complete,
\* the cached timestamp never decreases, and once a rate is cached no call
\* of fetchRateCached returns null.
C28_TimestampMonotone ==
  [][/\ lastFetch' >= lastFetch
     /\ \A i \in Slots :
          (cachedRate # 0 /\ h[i].kind = "request" /\ "fetch" \in h[i].pend
             /\ "fetch" \notin h'[i].pend)
            => h'[i].rate # 0]_vars

=============================================================================
